---- MODULE Spec2Model ----
(***************************************************************************)
(* gba_spriter: the sprite compiler of src/lib.rs (alpha-aware, RGBA,      *)
(* palette indices from 1, output returned as text) and of src/main.rs     *)
(* (alpha-agnostic, RGB, palette indices from 0, output written to a       *)
(* file).  One compilation run: walk the descriptor entries, add their     *)
(* rectangles to the builder, compile every sprite tile by tile and pixel  *)
(* by pixel through palette_index, then write the palette and the sprite   *)
(* blocks.                                                                 *)
(***************************************************************************)
EXTENDS Integers, Sequences, FiniteSets, TLC

\* ---------------------------------------------------------------- numbers

\* u8::MAX, the largest value of next_palette_index and of a channel.
U8Max == 255
\* Side of a tile in pixels (bmp.width / 8, extract_rect(.., 8, 8)).
TileSize == 8
\* write_to shifts every 8-bit channel right by this many bits.
ChannelShift == 3
\* The alpha of a fully opaque pixel (assert_eq!(color.a, 255)).
OpaqueAlpha == 255

\* Height, in tiles, of the one-tile-wide strip sheets.
StripTiles == 5
\* How many colour numbers beyond u8's 256 values the overflowing strip holds.
Overshoot == 1
\* Colours per 8x8 region of the region sheets.
FewColors == 3

\* Option<T>: None and Some(v).
None == << >>
Some(v) == << v >>

Pow2(n) == IF n = 0 THEN 1 ELSE IF n = 1 THEN 2 ELSE IF n = 2 THEN 4 ELSE IF n = 3 THEN 8 ELSE 16
\* c >> k on a u8.
Shr(c, k) == c \div Pow2(k)

\* ------------------------------------------------------------------ pixels

\* RGBA::rgb(): the pixel without its alpha.
Rgb(p) == [r |-> p.r, g |-> p.g, b |-> p.b]

\* RGB::default(), the colour write_to emits for an unassigned index.
RgbDefault == [r |-> 0, g |-> 0, b |-> 0]

\* The opaque colour number n as channels; distinct n < 65536 give distinct colours.
ColorOf(n) == [r |-> n % 256, g |-> (n \div 256) % 256, b |-> (3 * n) % 256]

\* The pixel the decoder yields for colour number n at (x, y): decode24_file
\* gives RGB, decode32_file gives RGBA where number 0 is a fully transparent
\* pixel (with position-dependent RGB) and a /semi/ pixel has alpha 128.
DecodedPixel(alpha, n, x, y, semi) ==
    IF ~alpha THEN ColorOf(n)
    ELSE IF semi THEN [r |-> n % 256, g |-> 9, b |-> 9, a |-> 128]
    ELSE IF n = 0 THEN [r |-> (x + 1) % 256, g |-> y % 256, b |-> 7, a |-> 0]
    ELSE [r |-> ColorOf(n).r, g |-> ColorOf(n).g, b |-> ColorOf(n).b, a |-> OpaqueAlpha]

\* The colour number of the sheet of kind /kind/ at (x, y).
\*  strip    row-major position modulo 256: exactly a palette's worth of numbers
\*  over     row-major position modulo 256 + Overshoot: too many colours
\*  regions  every 8x8 region has FewColors numbers of its own
\*  regions2 as regions, other numbers
PixelNum(kind, w, x, y) ==
    CASE kind = "strip" -> (y * w + x) % (U8Max + 1)
      [] kind = "over" -> (y * w + x) % (U8Max + 1 + Overshoot)
      [] kind = "regions" ->
            ((x \div TileSize) + 3 * (y \div TileSize)) * FewColors + ((x + 2 * y) % FewColors)
      [] kind = "regions2" ->
            20 + ((x \div TileSize) + 3 * (y \div TileSize)) * FewColors + ((2 * x + y) % FewColors)

\* Bitmap<P>: buffer (row-major, 1-based here), width, height.
\* The decoded image of a sheet description sh = [w, h, kind, semi].
Decode(alpha, sh) ==
    [buffer |-> [k \in 1..(sh.w * sh.h) |->
                    LET x == (k - 1) % sh.w
                        y == (k - 1) \div sh.w
                    IN DecodedPixel(alpha, PixelNum(sh.kind, sh.w, x, y), x, y,
                                    sh.semi = << x, y >>)],
     width |-> sh.w,
     height |-> sh.h]

\* ------------------------------------------------------------ extract_rect

\* The index extract_rect reads for the k-th pixel (0-based) it pushes.
RectIndex(input, rect, k) ==
    LET y == rect[2] + (k \div rect[3])
        x == rect[1] + (k % rect[3])
    IN y * input.width + x

\* extract_rect: the w*h pixels at y * input.width + x, or the panic of
\* input.buffer[index] on an index outside the buffer.
ExtractRect(input, rect) ==
    LET w == rect[3]
        h == rect[4]
    IN IF \E k \in 0..(w * h - 1) : RectIndex(input, rect, k) >= Len(input.buffer)
       THEN [ok |-> FALSE]
       ELSE [ok |-> TRUE,
             bmp |-> [buffer |-> [k \in 1..(w * h) |->
                                    input.buffer[RectIndex(input, rect, k - 1) + 1]],
                      width |-> w,
                      height |-> h]]

\* ----------------------------------------------------------- palette_index

\* next_palette_index: Some(1) in lib.rs (index 0 is the transparent one),
\* Some(0) in main.rs.
InitialIndex(alpha) == IF alpha THEN 1 ELSE 0

\* A counter that wraps round instead of running out.
WrappingAdd(i) == Some((i + 1) % (U8Max + 1))

\* u8::checked_add(1): None on overflow.
CheckedAdd(i) == IF i + 1 > U8Max THEN None ELSE Some(i + 1)

\* The results of palette_index: Ok(index), the Err of a full palette, and
\* the panic of assert_eq!(color.a, 255).
Ok(i) == [tag |-> "ok", idx |-> Some(i)]
ErrTooManyColors == [tag |-> "overflow", idx |-> None]
PanicAlpha == [tag |-> "panic", idx |-> None]

\* The key of the palette map: color.rgb() in lib.rs, the colour in main.rs.
PaletteKey(alpha, color) == IF alpha THEN Rgb(color) ELSE color

\* The alpha test left out.
NeverTransparent(alpha, color) == FALSE

\* lib.rs: if color.a == 0 { return Ok(0); }
IsTransparent(alpha, color) == alpha /\ color.a = 0

\* lib.rs: assert_eq!(color.a, 255) fails.
AlphaAssertFails(alpha, color) == alpha /\ color.a # OpaqueAlpha

\* An occupied entry handled like a vacant one: the colour is given a new index.
OccupiedReassigned(cs, key) ==
    IF cs.next = None
    THEN [res |-> ErrTooManyColors, next |-> cs.next, palette |-> cs.palette]
    ELSE [res |-> Ok(cs.next[1]),
          next |-> CheckedAdd(cs.next[1]),
          palette |-> [k \in DOMAIN cs.palette |-> IF k = key THEN cs.next[1] ELSE cs.palette[k]]]

\* The arm Entry::Occupied(o): the stored index, nothing changes.
Occupied(cs, key) ==
    [res |-> Ok(cs.palette[key]), next |-> cs.next, palette |-> cs.palette]

\* A vacant entry filled without advancing the counter.
VacantSomeNoAdvance(cs, key) ==
    [res |-> Ok(cs.next[1]),
     next |-> cs.next,
     palette |-> [k \in DOMAIN cs.palette \cup {key} |->
                     IF k = key THEN cs.next[1] ELSE cs.palette[k]]]

\* The arm (Entry::Vacant(e), Some(i)): the counter advances, the key gets i.
VacantSome(cs, key) ==
    LET i == cs.next[1]
    IN [res |-> Ok(i),
        next |-> CheckedAdd(i),
        palette |-> [k \in DOMAIN cs.palette \cup {key} |->
                        IF k = key THEN i ELSE cs.palette[k]]]

\* The arm (Entry::Vacant(_), None): the error.
VacantNone(cs) ==
    [res |-> ErrTooManyColors, next |-> cs.next, palette |-> cs.palette]

\* match (self.palette.entry(key), self.next_palette_index)
MatchEntry(cs, key) ==
    IF key \in DOMAIN cs.palette THEN Occupied(cs, key)
    ELSE IF cs.next # None THEN VacantSome(cs, key)
    ELSE VacantNone(cs)

\* palette_index on the allocator cs = [next, palette]: its result and the
\* allocator after the call.
PaletteIndex(alpha, cs, color) ==
    IF IsTransparent(alpha, color)
    THEN [res |-> Ok(0), next |-> cs.next, palette |-> cs.palette]
    ELSE IF AlphaAssertFails(alpha, color)
    THEN [res |-> PanicAlpha, next |-> cs.next, palette |-> cs.palette]
    ELSE MatchEntry(cs, PaletteKey(alpha, color))

\* ---------------------------------------------------------------- write_to

\* unwritten_colors: the palette turned round, index -> colour.
UnwrittenColors(pal) ==
    [i \in {pal[c] : c \in DOMAIN pal} |-> CHOOSE c \in DOMAIN pal : pal[c] = i]

\* The channels shifted by one bit too few.
ColorLineShort(c) ==
    [r |-> Shr(c.r, ChannelShift - 1), g |-> Shr(c.g, ChannelShift - 1),
     b |-> Shr(c.b, ChannelShift - 1)]

\* The line Color::from_rgb(c.r >> 3, c.g >> 3, c.b >> 3).
ColorLine(c) ==
    [r |-> Shr(c.r, ChannelShift), g |-> Shr(c.g, ChannelShift), b |-> Shr(c.b, ChannelShift)]

\* The keys left in unwritten_colors when the loop for i in 0..=255 reaches
\* i: those that remove(&0) .. remove(&(i - 1)) have not taken out.
UnwrittenAt(unwritten, i) == {j \in DOMAIN unwritten : j >= i}

\* for i in 0..=255 { if unwritten_colors.is_empty() { break; } .. remove(&i) .. }
\* The loop writes a line for every i it reaches with keys left: the colour
\* it removes, or RGB::default().
PaletteLines(unwritten) ==
    LET n == Cardinality({i \in 0..U8Max : UnwrittenAt(unwritten, i) # {}})
    IN [k \in 1..n |->
           ColorLine(IF k - 1 \in DOMAIN unwritten THEN unwritten[k - 1] ELSE RgbDefault)]

\* The identifiers of the descriptors and str::to_uppercase of each.
Ids == {"a", "b", "Hero", "big", "thin", "empty", "strip", "wrap", "low", "semi"}
ToUppercase(id) ==
    CASE id = "a" -> "A"
      [] id = "b" -> "B"
      [] id = "Hero" -> "HERO"
      [] id = "big" -> "BIG"
      [] id = "thin" -> "THIN"
      [] id = "empty" -> "EMPTY"
      [] id = "strip" -> "STRIP"
      [] id = "wrap" -> "WRAP"
      [] id = "low" -> "LOW"
      [] id = "semi" -> "SEMI"

\* The orders in which a HashMap may hand out the keys S.
Orders(S) ==
    {o \in [1..Cardinality(S) -> S] : \A i, j \in 1..Cardinality(S) : o[i] = o[j] => i = j}

\* The text write_to produces for the sprites taken in /order/: the palette
\* lines, then one block per sprite with its name and tiles.
WriteTo(pal, sprs, order) ==
    [palette |-> PaletteLines(UnwrittenColors(pal)),
     blocks |-> [k \in 1..Len(order) |->
                    [name |-> ToUppercase(order[k]), tiles |-> sprs[order[k]]]]]

\* ------------------------------------------------------------------ inputs

Sheet(w, h, kind, semi) == [w |-> w, h |-> h, kind |-> kind, semi |-> semi]
Entry(sh, desc) == [sheet |-> sh, desc |-> desc]

\* The directories the walk is run on: each a sequence of (descriptor, image)
\* entries, a descriptor mapping sprite names to rects (x, y, w, h).
Scenarios ==
    << \* 1: a strip holding exactly 256 colour numbers
       << Entry(Sheet(TileSize, TileSize * StripTiles, "strip", None),
                ("strip" :> << 0, 0, TileSize, TileSize * StripTiles >>)) >>,
       \* 2: a strip holding more
       << Entry(Sheet(TileSize, TileSize * StripTiles, "over", None),
                ("strip" :> << 0, 0, TileSize, TileSize * StripTiles >>)) >>,
       \* 3: three sprites of one sheet, one with remainder pixels
       << Entry(Sheet(24, 17, "regions", None),
                ("a" :> << 0, 0, 8, 8 >>) @@ ("b" :> << 8, 0, 8, 8 >>)
                    @@ ("Hero" :> << 1, 1, 17, 9 >>)) >>,
       \* 4: a 2x2-tile sprite, a sprite narrower than a tile, an empty rect
       << Entry(Sheet(17, 17, "regions", None),
                ("big" :> << 0, 0, 17, 17 >>) @@ ("thin" :> << 3, 0, 7, 16 >>)
                    @@ ("empty" :> << 99, 99, 0, 0 >>)) >>,
       \* 5: two descriptor files naming the same sprite
       << Entry(Sheet(16, 8, "regions", None),
                ("a" :> << 0, 0, 8, 8 >>) @@ ("b" :> << 8, 0, 8, 8 >>)),
          Entry(Sheet(8, 16, "regions2", None),
                ("a" :> << 0, 8, 8, 8 >>)) >>,
       \* 6: a rect overhanging the right edge
       << Entry(Sheet(16, 16, "regions", None), ("wrap" :> << 12, 0, 8, 8 >>)) >>,
       \* 7: a rect overhanging the bottom edge
       << Entry(Sheet(16, 16, "regions", None), ("low" :> << 0, 12, 8, 8 >>)) >>,
       \* 8: a pixel of alpha 128
       << Entry(Sheet(8, 8, "regions", << 3, 2 >>), ("semi" :> << 0, 0, 8, 8 >>)) >>
    >>

\* ------------------------------------------------------------------- state

VARIABLES
    alphaAware,          \* TRUE: the macro of lib.rs; FALSE: the command of main.rs
    scn,                 \* the directory walked: an index of Scenarios
    entry_i,             \* the walk's position: the next entry to read
    markers,             \* lib.rs: the include_bytes! lines use_path has put in out
    builder,             \* SpritesBuilder.sprites: name -> Bitmap
    pc,                  \* where the run is
    todo,                \* compile: the names self.sprites has not handed out yet
    cur,                 \* compile: the sprite of the current iteration, or None
    tile_in,             \* the pixels of the extracted tile not mapped yet
    tile_out,            \* the indices collected for the current tile
    next_palette_index,  \* CompiledSprites.next_palette_index
    palette,             \* CompiledSprites.palette: colour -> index
    sprites,             \* CompiledSprites.sprites: name -> tiles
    write_started,       \* write_to has been entered
    out,                 \* the text delivered (file or macro result), or None
    failed,              \* some palette_index call has returned the error
    last                 \* the last palette_index call: argument, result, allocator before

vars == << alphaAware, scn, entry_i, markers, builder, pc, todo, cur, tile_in, tile_out,
           next_palette_index, palette, sprites, write_started, out, failed, last >>

EmptyMap == [x \in {} |-> 0]

Entries == Scenarios[scn]

\* The state at the start of main / compile_internal.  The CompiledSprites
\* value compile() constructs depends on nothing the walk does, so its three
\* fields hold their constructed values from the start.
Init ==
    /\ alphaAware \in BOOLEAN
    /\ scn \in 1..Len(Scenarios)
    /\ entry_i = 1
    /\ markers = 0
    /\ builder = EmptyMap
    /\ pc = "walk"
    /\ todo = {}
    /\ cur = None
    /\ tile_in = << >>
    /\ tile_out = << >>
    /\ next_palette_index = Some(InitialIndex(alphaAware))
    /\ palette = EmptyMap
    /\ sprites = EmptyMap
    /\ write_started = FALSE
    /\ out = None
    /\ failed = FALSE
    /\ last = None

\* use_path: lib.rs writes one marker per path, main.rs has none.
UsePath(alpha, n) == IF alpha THEN n + 1 ELSE n

\* SpritesBuilder::add: every rect of the descriptor extracted and inserted
\* under its name (an existing name is overwritten); ok is FALSE when an
\* extract_rect panics.
BuilderAdd(b, desc, bmp) ==
    IF \E id \in DOMAIN desc : ~ExtractRect(bmp, desc[id]).ok
    THEN [ok |-> FALSE, sprites |-> b]
    ELSE [ok |-> TRUE,
          sprites |-> [id \in DOMAIN b \cup DOMAIN desc |->
                          IF id \in DOMAIN desc THEN ExtractRect(bmp, desc[id]).bmp
                          ELSE b[id]]]

\* One iteration of the walk: the two use_path calls, the descriptor and the
\* image read, builder.add.
Walk ==
    /\ pc = "walk"
    /\ entry_i <= Len(Entries)
    /\ LET e == Entries[entry_i]
           added == BuilderAdd(builder, e.desc, Decode(alphaAware, e.sheet))
       IN /\ markers' = UsePath(alphaAware, UsePath(alphaAware, markers))
          /\ IF added.ok
             THEN /\ builder' = added.sprites
                  /\ entry_i' = entry_i + 1
                  /\ pc' = "walk"
             ELSE /\ pc' = "panic"
                  /\ UNCHANGED << builder, entry_i >>
    /\ UNCHANGED << alphaAware, scn, todo, cur, tile_in, tile_out, next_palette_index,
                    palette, sprites, write_started, out, failed, last >>

\* builder.compile(): the CompiledSprites value, and the iteration over
\* self.sprites begins.
CompileBegin ==
    /\ pc = "walk"
    /\ entry_i > Len(Entries)
    /\ next_palette_index' = Some(InitialIndex(alphaAware))
    /\ palette' = EmptyMap
    /\ sprites' = EmptyMap
    /\ todo' = DOMAIN builder
    /\ pc' = "sprite"
    /\ UNCHANGED << alphaAware, scn, entry_i, markers, builder, cur, tile_in, tile_out,
                    write_started, out, failed, last >>

XTiles(bmp) == bmp.width \div TileSize
YTiles(bmp) == bmp.height \div TileSize

\* for (id, bmp) in self.sprites: the map hands out any name it still holds.
NextSprite ==
    /\ pc = "sprite"
    /\ \E id \in todo :
          /\ todo' = todo \ {id}
          /\ cur' = Some([id |-> id, bmp |-> builder[id], x_tile |-> 0, y_tile |-> 0,
                          tiles |-> << >>])
    /\ pc' = "tiles"
    /\ UNCHANGED << alphaAware, scn, entry_i, markers, builder, tile_in, tile_out,
                    next_palette_index, palette, sprites, write_started, out, failed, last >>

\* The two tile loops have a tile left.
MoreTiles(c) == c.y_tile < YTiles(c.bmp) /\ c.x_tile < XTiles(c.bmp)

\* The tile rect with its two coordinates exchanged.
TileRectTransposed(x_tile, y_tile) ==
    << y_tile * TileSize, x_tile * TileSize, TileSize, TileSize >>

\* The rect of the tile (x_tile, y_tile).
TileRect(x_tile, y_tile) == << x_tile * TileSize, y_tile * TileSize, TileSize, TileSize >>

\* extract_rect(&bmp, (x_tile * 8, y_tile * 8, 8, 8)).buffer.into_iter()
TileBegin ==
    /\ pc = "tiles"
    /\ MoreTiles(cur[1])
    /\ LET t == ExtractRect(cur[1].bmp, TileRect(cur[1].x_tile, cur[1].y_tile))
       IN IF t.ok
          THEN /\ tile_in' = t.bmp.buffer
               /\ tile_out' = << >>
               /\ pc' = "pixels"
          ELSE /\ pc' = "panic"
               /\ UNCHANGED << tile_in, tile_out >>
    /\ UNCHANGED << alphaAware, scn, entry_i, markers, builder, todo, cur,
                    next_palette_index, palette, sprites, write_started, out, failed, last >>

\* The error of a call dropped: the run goes on to write what it has.
AfterCallSwallowed(tag) ==
    CASE tag = "ok" -> "pixels"
      [] tag = "overflow" -> "write"
      [] tag = "panic" -> "panic"

\* Where the run goes after a palette_index result: on with the tile, out of
\* compile and of the run by the two ?s, or down with the panic.
AfterCall(tag) ==
    CASE tag = "ok" -> "pixels"
      [] tag = "overflow" -> "error"
      [] tag = "panic" -> "panic"

\* .map(|c| compiled.palette_index(c)): one pixel of the tile.
Pixel ==
    /\ pc = "pixels"
    /\ tile_in # << >>
    /\ LET color == Head(tile_in)
           cs == [next |-> next_palette_index, palette |-> palette]
           r == PaletteIndex(alphaAware, cs, color)
       IN /\ next_palette_index' = r.next
          /\ palette' = r.palette
          /\ last' = Some([color |-> color, res |-> r.res,
                           known |-> PaletteKey(alphaAware, color) \in DOMAIN palette,
                           count |-> Cardinality(DOMAIN palette),
                           next |-> next_palette_index])
          /\ failed' = (failed \/ r.res.tag = "overflow")
          /\ pc' = AfterCall(r.res.tag)
          /\ tile_in' = Tail(tile_in)
          /\ tile_out' = IF r.res.tag = "ok" THEN Append(tile_out, r.res.idx[1]) ELSE tile_out
    /\ UNCHANGED << alphaAware, scn, entry_i, markers, builder, todo, cur, sprites,
                    write_started, out >>

\* The loop counters after the tile (x_tile, y_tile).
NextTile(c) ==
    IF c.x_tile + 1 < XTiles(c.bmp)
    THEN [c EXCEPT !.x_tile = c.x_tile + 1]
    ELSE [c EXCEPT !.x_tile = 0, !.y_tile = c.y_tile + 1]

\* .collect() is complete: tiles.push(tile), on to the next tile.
TileEnd ==
    /\ pc = "pixels"
    /\ tile_in = << >>
    /\ cur' = Some([NextTile(cur[1]) EXCEPT !.tiles = Append(cur[1].tiles, tile_out)])
    /\ tile_out' = << >>
    /\ pc' = "tiles"
    /\ UNCHANGED << alphaAware, scn, entry_i, markers, builder, todo, tile_in,
                    next_palette_index, palette, sprites, write_started, out, failed, last >>

\* compiled.sprites.insert(id, tiles)
SpritesInsert(sprs, id, tiles) ==
    [k \in DOMAIN sprs \cup {id} |-> IF k = id THEN tiles ELSE sprs[k]]

\* The tile loops of a sprite are over.
SpriteEnd ==
    /\ pc = "tiles"
    /\ ~MoreTiles(cur[1])
    /\ sprites' = SpritesInsert(sprites, cur[1].id, cur[1].tiles)
    /\ cur' = None
    /\ pc' = "sprite"
    /\ UNCHANGED << alphaAware, scn, entry_i, markers, builder, todo, tile_in, tile_out,
                    next_palette_index, palette, write_started, out, failed, last >>

\* Ok(compiled): compile returns to main / compile_internal.
CompileEnd ==
    /\ pc = "sprite"
    /\ todo = {}
    /\ pc' = "write"
    /\ UNCHANGED << alphaAware, scn, entry_i, markers, builder, todo, cur, tile_in, tile_out,
                    next_palette_index, palette, sprites, write_started, out, failed, last >>

\* compiled.write_to(..): the palette block, then the sprites in the order
\* the map hands them out.
Write ==
    /\ pc = "write"
    /\ \E order \in Orders(DOMAIN sprites) :
          out' = Some([markers |-> markers, text |-> WriteTo(palette, sprites, order)])
    /\ write_started' = TRUE
    /\ pc' = "done"
    /\ UNCHANGED << alphaAware, scn, entry_i, markers, builder, todo, cur, tile_in, tile_out,
                    next_palette_index, palette, sprites, failed, last >>

Next ==
    \/ Walk
    \/ CompileBegin
    \/ NextSprite
    \/ TileBegin
    \/ Pixel
    \/ TileEnd
    \/ SpriteEnd
    \/ CompileEnd
    \/ Write

Spec == Init /\ [][Next]_vars

\* ------------------------------------------------------------- properties

\* A palette_index call is about to be made on this colour.
Calling == pc = "pixels" /\ tile_in # << >>
Arg == Head(tile_in)
ArgKey == PaletteKey(alphaAware, Arg)

\* The call is on an opaque colour (every colour of main.rs is one).
ArgOpaque == alphaAware => Arg.a = 255

\* The last call was on an opaque colour.
LastOpaque == alphaAware => last[1].color.a = 255

\* The indices the palette holds.
Assigned == {palette[c] : c \in DOMAIN palette}

\* C1 (capacity boundary): a call on an opaque colour the palette does not
\* hold succeeds whenever fewer than the capacity's worth of colours (256 in
\* main.rs, 255 in lib.rs) have been resolved, and fails with the overflow
\* error, returning no index, when exactly that many have been; the palette
\* never holds more.
C1_Capacity ==
    LET capacity == IF alphaAware THEN 255 ELSE 256
    IN /\ Cardinality(DOMAIN palette) <= capacity
       /\ (last # None /\ LastOpaque /\ ~last[1].known) =>
             /\ last[1].count < capacity => last[1].res.tag = "ok"
             /\ last[1].count = capacity =>
                   last[1].res.tag = "overflow" /\ last[1].res.idx = None

\* The colour after the capacity's worth has just been refused.
C1_Witness ==
    /\ last # None
    /\ LastOpaque /\ ~last[1].known
    /\ last[1].count = (IF alphaAware THEN 255 ELSE 256)
    /\ last[1].res.tag = "overflow"
    /\ pc = "error"

\* C2 (injectivity): no two colours of the palette share an index, and in
\* lib.rs no colour has index 0, the index of the transparent pixels.
C2_Injective ==
    /\ Cardinality(Assigned) = Cardinality(DOMAIN palette)
    /\ alphaAware => 0 \notin Assigned

\* lib.rs has resolved several opaque colours and, last, a transparent pixel.
C2_Witness ==
    /\ alphaAware
    /\ Cardinality(DOMAIN palette) >= 3
    /\ last # None /\ last[1].color.a = 0 /\ last[1].res = Ok(0)

\* C3 (stability, first-seen order): a call on a colour the palette holds
\* returns the stored index and changes neither palette nor counter; a call
\* on an opaque colour it does not hold, the counter not exhausted, returns
\* base + (number of colours held), base 0 in main.rs and 1 in lib.rs, and
\* stores that index for the colour.
C3_StableSequential ==
    [][ (Calling /\ ArgOpaque) =>
           /\ ArgKey \in DOMAIN palette =>
                 /\ last'[1].res = Ok(palette[ArgKey])
                 /\ palette' = palette
                 /\ next_palette_index' = next_palette_index
           /\ (ArgKey \notin DOMAIN palette /\ next_palette_index # None) =>
                 /\ last'[1].res = Ok((IF alphaAware THEN 1 ELSE 0) + Cardinality(DOMAIN palette))
                 /\ ArgKey \in DOMAIN palette'
                 /\ palette'[ArgKey] = last'[1].res.idx[1]
                 /\ \A c \in DOMAIN palette : palette'[c] = palette[c]
      ]_vars

\* A colour resolved before has been resolved again, after the counter ran out.
C3_Witness ==
    /\ last # None
    /\ LastOpaque /\ last[1].known
    /\ last[1].next = None
    /\ last[1].res.tag = "ok"
    /\ last[1].res.idx[1] = palette[PaletteKey(alphaAware, last[1].color)]

\* C4 (transparent sentinel): in lib.rs a call on a pixel of alpha 0 returns
\* index 0 and changes neither palette nor counter, whatever the pixel's RGB
\* and whatever the allocator's state.
C4_TransparentSentinel ==
    [][ (Calling /\ alphaAware /\ Arg.a = 0) =>
           /\ last'[1].res = Ok(0)
           /\ palette' = palette
           /\ next_palette_index' = next_palette_index
           /\ pc' = "pixels"
      ]_vars

\* A transparent pixel of non-zero RGB has been resolved by an exhausted allocator.
C4_Witness ==
    /\ alphaAware
    /\ last # None
    /\ last[1].color.a = 0 /\ Rgb(last[1].color) # RgbDefault
    /\ last[1].next = None /\ next_palette_index = None
    /\ last[1].res = Ok(0)
    /\ last[1].count = Cardinality(DOMAIN palette)

\* C5 (invalid transparency): in lib.rs a call on a pixel whose alpha is
\* neither 0 nor 255 returns an error value of its own kind to its caller,
\* and the process does not panic.
C5_InvalidAlphaIsError ==
    (last # None /\ alphaAware /\ last[1].color.a \notin {0, 255}) =>
        /\ last[1].res.tag = "invalid_transparency"
        /\ pc # "panic"

\* The rect lies inside the sheet.
RectInside(rect, sh) == rect[1] + rect[3] <= sh.w /\ rect[2] + rect[4] <= sh.h

\* C6 (no clamping, no wrapping): extract_rect returns no bitmap for a rect
\* of positive width and height that leaves its source; so every such rect
\* of an entry that builder.add has got through lies inside its sheet.
C6_OutOfRangeRectFails ==
    \A k \in 1..(entry_i - 1) :
        \A id \in DOMAIN Entries[k].desc :
            LET rect == Entries[k].desc[id]
            IN (rect[3] > 0 /\ rect[4] > 0) => RectInside(rect, Entries[k].sheet)

\* The pixel of a bitmap at (x, y).
PixelAt(bmp, x, y) == bmp.buffer[y * bmp.width + x + 1]

\* The index the finished palette gives a pixel (-1: none).
IndexOfPixel(p) ==
    IF alphaAware /\ p.a = 0 THEN 0
    ELSE IF PaletteKey(alphaAware, p) \in DOMAIN palette
    THEN palette[PaletteKey(alphaAware, p)]
    ELSE -1

\* The colours of the opaque pixels inside the whole tiles of the builder's sprites.
TiledColors ==
    UNION {
        {PaletteKey(alphaAware, builder[id].buffer[k]) :
            k \in {j \in 1..Len(builder[id].buffer) :
                    /\ (j - 1) % builder[id].width < 8 * (builder[id].width \div 8)
                    /\ (j - 1) \div builder[id].width < 8 * (builder[id].height \div 8)
                    /\ alphaAware => builder[id].buffer[j].a # 0}}
        : id \in DOMAIN builder }

\* C7 (tiling layout): a compiled sprite of a W x H bitmap has
\* (W div 8) * (H div 8) tiles of 64 indices; position py*8+px of tile
\* ty*(W div 8)+tx is the palette index of the pixel (tx*8+px, ty*8+py); and
\* the palette holds no colour that occurs only among the remainder pixels.
C7_TilingLayout ==
    /\ \A id \in DOMAIN sprites :
          LET bmp == builder[id]
              x_tiles == bmp.width \div 8
              y_tiles == bmp.height \div 8
              tiles == sprites[id]
          IN /\ Len(tiles) = x_tiles * y_tiles
             /\ \A t \in 1..Len(tiles) : Len(tiles[t]) = 64
             /\ \A ty \in 0..(y_tiles - 1), tx \in 0..(x_tiles - 1) :
                   \A py \in 0..7, px \in 0..7 :
                       tiles[ty * x_tiles + tx + 1][py * 8 + px + 1]
                           = IndexOfPixel(PixelAt(bmp, tx * 8 + px, ty * 8 + py))
    /\ DOMAIN palette \subseteq TiledColors

\* A sprite two tiles wide and two high, with remainder pixels, is compiled.
C7_Witness ==
    \E id \in DOMAIN sprites :
        /\ Len(sprites[id]) = 4
        /\ builder[id].width = 17 /\ builder[id].height = 17
        /\ sprites[id][2] # sprites[id][3]

\* C8 (palette block): the entry list write_to emits for a palette has at
\* most 256 entries; it is as long as the highest assigned index plus one
\* (empty for an empty palette); the colour of index i stands at position i
\* with every channel divided by 8, a value in 0..31; every other position
\* holds (0, 0, 0).  It holds of every palette the run passes through and of
\* the text the run delivers.
C8_PaletteBlock ==
    \A lines \in {IF pc = "done" THEN out[1].text.palette
                  ELSE PaletteLines(UnwrittenColors(palette))} :
        \A assigned \in {Assigned} :
            /\ Len(lines) <= 256
            /\ assigned = {} => Len(lines) = 0
            /\ assigned # {} => (Len(lines) - 1) \in assigned
            /\ \A i \in assigned : i + 1 <= Len(lines)
            /\ \A c \in DOMAIN palette :
                  /\ lines[palette[c] + 1] = [r |-> c.r \div 8, g |-> c.g \div 8, b |-> c.b \div 8]
                  /\ lines[palette[c] + 1].r \in 0..31
                  /\ lines[palette[c] + 1].g \in 0..31
                  /\ lines[palette[c] + 1].b \in 0..31
            /\ \A i \in 1..Len(lines) :
                  (i - 1) \notin assigned => lines[i] = [r |-> 0, g |-> 0, b |-> 0]

\* lib.rs has delivered a full palette block: 256 entries, the first the
\* default colour of the unassigned index 0, the last a shifted colour.
C8_Witness ==
    /\ pc = "done"
    /\ alphaAware
    /\ Len(out[1].text.palette) = 256
    /\ out[1].text.palette[1] = [r |-> 0, g |-> 0, b |-> 0]
    /\ out[1].text.palette[256].r = 31

\* --------------------------------------------- the run as a function of order

\* .map(|c| compiled.palette_index(c)).collect::<Result<_>>() over a tile's pixels.
RECURSIVE MapPixels(_, _, _, _)
MapPixels(alpha, cs, pixels, acc) ==
    IF pixels = << >> THEN [tag |-> "ok", cs |-> cs, tile |-> acc]
    ELSE LET r == PaletteIndex(alpha, cs, Head(pixels))
         IN IF r.res.tag # "ok" THEN [tag |-> r.res.tag, cs |-> cs, tile |-> acc]
            ELSE MapPixels(alpha, [next |-> r.next, palette |-> r.palette],
                           Tail(pixels), Append(acc, r.res.idx[1]))

\* The two tile loops of compile from the t-th tile on (y_tile outer, x_tile inner).
RECURSIVE CompileTiles(_, _, _, _, _)
CompileTiles(alpha, cs, bmp, t, tiles) ==
    IF t >= XTiles(bmp) * YTiles(bmp) THEN [tag |-> "ok", cs |-> cs, tiles |-> tiles]
    ELSE LET ex == ExtractRect(bmp, TileRect(t % XTiles(bmp), t \div XTiles(bmp)))
         IN IF ~ex.ok THEN [tag |-> "panic", cs |-> cs, tiles |-> tiles]
            ELSE LET m == MapPixels(alpha, cs, ex.bmp.buffer, << >>)
                 IN IF m.tag # "ok" THEN [tag |-> m.tag, cs |-> m.cs, tiles |-> tiles]
                    ELSE CompileTiles(alpha, m.cs, bmp, t + 1, Append(tiles, m.tile))

\* The sprite loop of compile when self.sprites hands the names out in /order/.
RECURSIVE CompileInOrder(_, _, _, _, _)
CompileInOrder(alpha, cs, sprs, b, order) ==
    IF order = << >> THEN [tag |-> "ok", cs |-> cs, sprites |-> sprs]
    ELSE LET c == CompileTiles(alpha, cs, b[Head(order)], 0, << >>)
         IN IF c.tag # "ok" THEN [tag |-> c.tag, cs |-> c.cs, sprites |-> sprs]
            ELSE CompileInOrder(alpha, c.cs, SpritesInsert(sprs, Head(order), c.tiles),
                                b, Tail(order))

\* One order of the names S, the same whenever asked.
FixedOrder(S) == CHOOSE o \in Orders(S) : TRUE

\* How the run on this builder ends, and what it delivers, when both maps
\* hand their names out in the fixed order.
FixedOrderOutcome ==
    LET c == CompileInOrder(alphaAware,
                            [next |-> Some(InitialIndex(alphaAware)), palette |-> EmptyMap],
                            EmptyMap, builder, FixedOrder(DOMAIN builder))
    IN IF c.tag = "ok"
       THEN [end |-> "done",
             out |-> Some([markers |-> markers,
                           text |-> WriteTo(c.cs.palette, c.sprites,
                                            FixedOrder(DOMAIN c.sprites))])]
       ELSE [end |-> AfterCall(c.tag), out |-> None]

\* C9 (determinism): every run on the same inputs ends the same way and
\* delivers the same text: the one the run with the fixed map order delivers.
C9_Deterministic ==
    (pc \in {"done", "error", "panic"} /\ entry_i > Len(Entries)) =>
        [end |-> pc, out |-> out] = FixedOrderOutcome

\* C10 (atomic failure): once a palette_index call has failed, write_to has
\* not been and is not entered and nothing is delivered (nor is it after a
\* panic); what is delivered is delivered after every entry has been read
\* and every sprite compiled.
C10_AtomicFailure ==
    /\ failed => (~write_started /\ out = None /\ pc = "error")
    /\ pc = "panic" => (~write_started /\ out = None)
    /\ (write_started \/ out # None) =>
          /\ ~failed
          /\ pc = "done"
          /\ entry_i > Len(Entries)
          /\ todo = {} /\ cur = None
          /\ DOMAIN sprites = DOMAIN builder

\* A call has failed in the middle of a sprite; the run is over with nothing out.
C10_Witness ==
    /\ failed
    /\ pc = "error"
    /\ cur # None /\ cur[1].tiles # << >>
    /\ ~write_started /\ out = None

====
